---- MODULE Spec2Model ----
(***************************************************************************)
(* Model of driver/obfuscator.py: the pipeline controller that compiles a  *)
(* source file, links a synthesized options module into it, applies the    *)
(* obfuscation pass (composite first, sequential fallback), gathers        *)
(* statistics from the pass diagnostics and writes report.json.            *)
(* External tools are the environment: each invocation either returns 0,   *)
(* returns non-zero (CalledProcessError) or cannot be started              *)
(* (FileNotFoundError).                                                    *)
(***************************************************************************)
EXTENDS Integers, Sequences, FiniteSets, TLC

(* ------------------------------ bounds --------------------------------- *)
\* user values of --bogus-blocks/--string-level/--insert-nops in Spec: -1..MaxUser
MaxUser == 1
\* --cycles in Spec: -1..MaxCycles
MaxCycles == 3
\* size of an existing output binary: 0..MaxSize
MaxSize == 1
\* user values in SpecProfile
MaxBogus == 6
MaxString == 4
MaxNops == 17

(* ------------------------- program constants --------------------------- *)
LightBogus == 1
LightString == 1
LightNops == 0
MediumBogus == 2
MediumString == 2
MediumNops == 4
AggressiveBogus == 5
AggressiveString == 3
AggressiveNops == 16
DefaultBogus == 1
DefaultString == 1
DefaultNops == 0
DefaultCycles == 1

Profiles == {"None", "light", "medium", "aggressive"}
Targets == {"linux", "windows"}
\* Python's None for a string-valued local
None == "None"

VARIABLES
  args,             \* argparse namespace: the user's request
  pc,               \* position of main()
  bogus, slevel, nops, params,   \* main's locals after profile application
  dl, tt,           \* apply_pass: extracted descriptor lines
  opt_ll,           \* contents of obf_options.ll, a sequence of lines
  i,                \* apply_pass: number of completed loop iterations
  src_bc,           \* apply_pass: input of the next sequential invocation
  stderr_accum,     \* apply_pass: diagnostic text, a sequence of lines
  stderr_text,      \* main: text returned by apply_pass
  stats, cumulative_stats,
  obf_bc,           \* obf.bc: how many times the pass has been applied to it
  exe,              \* the output binary: Absent, or its size in bytes
  final_size, methods, tool_versions,
  report,           \* report.json: <<>> until written, then <<record>>
  log               \* every external tool invocation so far, in order

vars == <<args, pc, bogus, slevel, nops, params, dl, tt, opt_ll, i, src_bc,
          stderr_accum, stderr_text, stats, cumulative_stats, obf_bc, exe,
          final_size, methods, tool_versions, report, log>>

\* groups of variables, for UNCHANGED
inputv == <<args, bogus, slevel, nops, params>>
synthv == <<dl, tt, opt_ll>>
applyv == <<i, src_bc, stderr_accum, obf_bc>>
statv == <<stderr_text, stats, cumulative_stats>>
tailv == <<exe, final_size, methods, tool_versions, report>>

Max(a, b) == IF a >= b THEN a ELSE b

(* ------------------------ profile application -------------------------- *)
\* main, "apply profile if given": the effective (bogus, slevel, nops)
ProfileTriple_NoMax(profile, b, s, n) ==
  CASE profile = "light" -> <<LightBogus, LightString, LightNops>>
    [] profile = "medium" -> <<MediumBogus, MediumString, MediumNops>>
    [] profile = "aggressive" -> <<AggressiveBogus, AggressiveString, AggressiveNops>>
    [] OTHER -> <<b, s, n>>

ProfileTriple(profile, b, s, n) ==
  CASE profile = "light" -> <<LightBogus, LightString, LightNops>>
    [] profile = "medium" ->
         <<Max(b, MediumBogus), Max(s, MediumString), Max(n, MediumNops)>>
    [] profile = "aggressive" ->
         <<Max(b, AggressiveBogus), Max(s, AggressiveString), Max(n, AggressiveNops)>>
    [] OTHER -> <<b, s, n>>

NoParams == [unset |-> TRUE]

\* main: the profile is applied and the params dictionary is built
ApplyProfile ==
  /\ pc = "start"
  /\ LET t == ProfileTriple(args.profile, args.bogus_blocks, args.string_level,
                            args.insert_nops)
     IN /\ bogus' = t[1]
        /\ slevel' = t[2]
        /\ nops' = t[3]
        /\ params' = [bogus_blocks |-> t[1], string_level |-> t[2],
                      insert_nops |-> t[3], target |-> args.target,
                      flatten |-> args.flatten]
  /\ pc' = "compile"
  /\ UNCHANGED <<args, synthv, applyv, statv, tailv, log>>

(* --------------------------- external tools --------------------------- *)
\* run(): the three ways a subprocess invocation can end: exit status 0, a
\* non-zero exit status (CalledProcessError), no such executable
\* (FileNotFoundError)
Outcomes == {"ok", "nonzero", "missing"}

Entry(tool, mode, n, src, out, outcome, diag) ==
  [tool |-> tool, mode |-> mode, n |-> n, src |-> src, out |-> out,
   outcome |-> outcome, diag |-> diag]

\* an exception that reaches the top level of main(): the process ends
Raise_WritesReport(e) ==
  /\ pc' = "report"
  /\ log' = Append(log, e)

Raise(e) ==
  /\ pc' = "aborted"
  /\ log' = Append(log, e)

KnownKeys == {"bogus_blocks", "strings", "nops"}

\* compile_to_bc(src, tmp_bc) and the seeding of cumulative_stats
CompileToBc ==
  /\ pc = "compile"
  /\ \E o \in Outcomes :
       LET e == Entry("clang", "", 0, "src", "input.bc", o, <<>>)
       IN IF o = "ok"
          THEN /\ pc' = "extract"
               /\ log' = Append(log, e)
               /\ cumulative_stats' = [k \in KnownKeys |-> 0]
          ELSE /\ Raise(e)
               /\ UNCHANGED cumulative_stats
  /\ UNCHANGED <<inputv, synthv, applyv, stderr_text, stats, tailv>>

\* texts llvm-dis can print for input.bc
DatalayoutLine == "target datalayout = \"e-m:e-i64:64\""
TripleLine == "target triple = \"x86_64-pc-linux-gnu\""
DisOutputs ==
  { <<"; ModuleID = 'input.bc'", DatalayoutLine, TripleLine, "define i32 @main()">>,
    <<"; ModuleID = 'input.bc'", TripleLine, "define i32 @main()">> }

\* the scanning loop of _extract_headers_from_bc, from line k of out
RECURSIVE ScanHeaders(_, _, _, _)
ScanHeaders(out, k, datalayout, triple) ==
  IF k > Len(out) THEN <<datalayout, triple>>
  ELSE LET d == IF out[k] = DatalayoutLine THEN out[k] ELSE datalayout
           t == IF out[k] # DatalayoutLine /\ out[k] = TripleLine THEN out[k] ELSE triple
       IN IF t # None /\ d # None THEN <<d, t>>
          ELSE ScanHeaders(out, k + 1, d, t)

\* what _extract_headers_from_bc returns when llvm-dis ends with outcome o and,
\* if it succeeded, printed out
ExtractResult_IgnoresFailure(o, out) == ScanHeaders(out, 1, None, None)

ExtractResult(o, out) ==
  IF o = "ok" THEN ScanHeaders(out, 1, None, None) ELSE <<None, None>>

\* dl, tt = _extract_headers_from_bc(in_bc)
ExtractHeaders ==
  /\ pc = "extract"
  /\ \E o \in Outcomes, out \in DisOutputs :
       LET r == ExtractResult(o, out)
       IN /\ dl' = r[1]
          /\ tt' = r[2]
          /\ log' = Append(log, Entry("llvm-dis", "", 0, "input.bc", "-", o, <<>>))
  /\ pc' = "synth"
  /\ UNCHANGED opt_ll
  /\ UNCHANGED <<inputv, applyv, statv, tailv>>

\* one line of obf_options.ll
TextLine(text) ==
  [kind |-> "text", text |-> text, name |-> "", linkage |-> "", type |-> "", value |-> 0]

GlobalLine_External(name, type, value) ==
  [kind |-> "global", text |-> "", name |-> name, linkage |-> "external",
   type |-> type, value |-> value]

GlobalLine(name, type, value) ==
  [kind |-> "global", text |-> "", name |-> name, linkage |-> "internal",
   type |-> type, value |-> value]

\* the text apply_pass writes to obf_options.ll
OptionsModule_NoFlatten(d, t, options) ==
  <<TextLine("; Module to provide obfuscation options")>>
  \o (IF d # None THEN <<TextLine(d)>> ELSE <<>>)
  \o (IF t # None THEN <<TextLine(t)>> ELSE <<>>)
  \o << GlobalLine("obf_bogus_blocks", "i32", options.bogus_blocks),
        GlobalLine("obf_string_level", "i32", options.string_level),
        GlobalLine("obf_insert_nops", "i32", options.insert_nops),
        GlobalLine("obf_flatten", "i1", 0) >>

OptionsModule(d, t, options) ==
  <<TextLine("; Module to provide obfuscation options")>>
  \o (IF d # None THEN <<TextLine(d)>> ELSE <<>>)
  \o (IF t # None THEN <<TextLine(t)>> ELSE <<>>)
  \o << GlobalLine("obf_bogus_blocks", "i32", options.bogus_blocks),
        GlobalLine("obf_string_level", "i32", options.string_level),
        GlobalLine("obf_insert_nops", "i32", options.insert_nops),
        GlobalLine("obf_flatten", "i1", IF options.flatten THEN 1 ELSE 0) >>

WriteOptions ==
  /\ pc = "synth"
  /\ opt_ll' = OptionsModule(dl, tt, params)
  /\ pc' = "assemble"
  /\ UNCHANGED <<inputv, dl, tt, applyv, statv, tailv, log>>

\* run(["llvm-as", opt_ll, "-o", "obf_options.bc"])
AssembleOptions ==
  /\ pc = "assemble"
  /\ \E o \in Outcomes :
       LET e == Entry("llvm-as", "", 0, "obf_options.ll", "obf_options.bc", o, <<>>)
       IN IF o = "ok"
          THEN /\ pc' = "link"
               /\ log' = Append(log, e)
          ELSE Raise(e)
  /\ UNCHANGED <<inputv, synthv, applyv, statv, tailv>>

\* cycles as main passes it to apply_pass
Cycles == Max(1, args.cycles)

\* "if cycles and cycles > 1"
TryComposite_Always(cycles) == cycles # 0 /\ cycles >= 1

TryComposite(cycles) == cycles # 0 /\ cycles > 1

\* run(["llvm-link", temp_bc, "obf_options.bc", "-o", "linked.bc"]), then the
\* choice between the composite attempt and the loop
LinkOptions ==
  /\ pc = "link"
  /\ \E o \in Outcomes :
       LET e == Entry("llvm-link", "", 0, "input.bc", "linked.bc", o, <<>>)
       IN IF o = "ok"
          THEN /\ log' = Append(log, e)
               /\ stderr_accum' = <<>>
               /\ IF TryComposite(Cycles)
                  THEN pc' = "composite" /\ UNCHANGED src_bc
                  ELSE pc' = "sequential" /\ src_bc' = "linked.bc"
          ELSE /\ Raise(e)
               /\ UNCHANGED <<stderr_accum, src_bc>>
  /\ UNCHANGED <<inputv, synthv, i, obf_bc, statv, tailv>>

(* ------------------------ pass diagnostics ----------------------------- *)
\* A diagnostic text is a sequence of lines; a line is split into whether it
\* starts with "ObfuscationPass:" and its whitespace-separated words after the
\* first; a word is <<key, value>> for "key=value" and <<word>> without '='.
Line(sentinel, words) == [sentinel |-> sentinel, words |-> words]

DiagCounts ==
  << Line(TRUE, << <<"bogus_blocks", 1>>, <<"strings", 2>> >>) >>
DiagMixed ==
  << Line(FALSE, << <<"nops", 7>> >>),
     Line(TRUE, << <<"nops", 3>>, <<"functions", 1>>, <<"done">> >>) >>
DiagEmpty == << >>
\* stderr texts one successful opt invocation can produce
Diags == {DiagCounts, DiagMixed, DiagEmpty}
\* stderr of an opt invocation that exits non-zero
DiagFailed == << Line(FALSE, << <<"error:">>, <<"unknown">>, <<"pass">> >>) >>

\* Python dictionaries as functions
EmptyDict == [k \in {} |-> 0]
Put(d, k, v) == [x \in (DOMAIN d) \cup {k} |-> IF x = k THEN v ELSE d[x]]
Get(d, k, default) == IF k \in DOMAIN d THEN d[k] ELSE default

\* gather_stats: the inner loop over the words of one line, from word j
RECURSIVE GatherWords(_, _, _)
GatherWords(words, j, d) ==
  IF j > Len(words) THEN d
  ELSE GatherWords(words, j + 1,
                   IF Len(words[j]) = 2 THEN Put(d, words[j][1], words[j][2]) ELSE d)

\* gather_stats: the loop over the lines, from line k
RECURSIVE GatherLines(_, _, _)
GatherLines(text, k, d) ==
  IF k > Len(text) THEN d
  ELSE GatherLines(text, k + 1,
                   IF text[k].sentinel THEN GatherWords(text[k].words, 1, d) ELSE d)

gather_stats(stdout_text) == GatherLines(stdout_text, 1, EmptyDict)

(* ------------------------ applying the pass ---------------------------- *)
\* the composite attempt of apply_pass: opt -passes=repeat<cycles>(obf-legacy)
CompositePass ==
  /\ pc = "composite"
  /\ \E o \in Outcomes, d \in Diags :
       LET e == Entry("opt", "composite", Cycles, "linked.bc", "obf.bc", o,
                      IF o = "ok" THEN d ELSE IF o = "nonzero" THEN DiagFailed ELSE <<>>)
       IN CASE o = "ok" ->
                 \* return stderr_text
                 /\ stderr_text' = d
                 /\ obf_bc' = Cycles
                 /\ pc' = "gather"
                 /\ log' = Append(log, e)
                 /\ UNCHANGED src_bc
            [] o = "nonzero" ->
                 \* except subprocess.CalledProcessError: pass
                 /\ src_bc' = "linked.bc"
                 /\ pc' = "sequential"
                 /\ log' = Append(log, e)
                 /\ UNCHANGED <<stderr_text, obf_bc>>
            [] o = "missing" ->
                 /\ Raise(e)
                 /\ UNCHANGED <<stderr_text, obf_bc, src_bc>>
  /\ UNCHANGED <<inputv, synthv, i, stderr_accum, stats, cumulative_stats, tailv>>

\* number of iterations of the loop: range(max(1, cycles))
Iterations_Once(cycles) == 1

Iterations_OneMore(cycles) == Max(1, cycles) + 1

Iterations(cycles) == Max(1, cycles)

\* stderr_accum += (stderr_text or "")
AppendDiag_Prepends(accum, text) == text \o accum

AppendDiag(accum, text) == accum \o text

\* src_bc = tmp_out: the next invocation reads what this one wrote
NextSource_Linked(tmp_out) == "linked.bc"

NextSource(tmp_out) == tmp_out

\* where apply_pass goes after `done` of `total` iterations: the next iteration
\* (without relinking the options) or the return
AfterIteration_Relinks(done, total) == IF done < total THEN "link" ELSE "gather"

AfterIteration(done, total) == IF done < total THEN "sequential" ELSE "gather"

\* one iteration of the loop of apply_pass, and the return after the last one
SequentialPass ==
  /\ pc = "sequential"
  /\ i < Iterations(Cycles)
  /\ \E o \in Outcomes, d \in Diags :
       LET e == Entry("opt", "sequential", 1, src_bc, "obf.bc", o,
                      IF o = "ok" THEN d ELSE IF o = "nonzero" THEN DiagFailed ELSE <<>>)
       IN IF o = "ok"
          THEN /\ stderr_accum' = AppendDiag(stderr_accum, d)
               /\ obf_bc' = (IF src_bc = "linked.bc" THEN 0 ELSE obf_bc) + 1
               /\ src_bc' = NextSource("obf.bc")
               /\ i' = i + 1
               /\ log' = Append(log, e)
               /\ pc' = AfterIteration(i + 1, Iterations(Cycles))
               /\ IF pc' = "gather"
                  THEN stderr_text' = stderr_accum'
                  ELSE UNCHANGED stderr_text
          ELSE /\ Raise(e)
               /\ UNCHANGED <<stderr_accum, obf_bc, src_bc, i, stderr_text>>
  /\ UNCHANGED <<inputv, synthv, stats, cumulative_stats, tailv>>

\* main: the merge of the gathered statistics into cumulative_stats
Accumulate_AllKeys(cum, st) ==
  [k \in (DOMAIN cum) \cup (DOMAIN st) |-> Get(cum, k, 0) + Get(st, k, 0)]

Accumulate(cum, st) == [k \in DOMAIN cum |-> Get(cum, k, 0) + Get(st, k, 0)]

\* main: stats = gather_stats(stderr_text or ""), then the merge
GatherStats ==
  /\ pc = "gather"
  /\ stats' = gather_stats(stderr_text)
  /\ cumulative_stats' = Accumulate(cumulative_stats, stats')
  /\ pc' = "codegen"
  /\ UNCHANGED <<inputv, synthv, applyv, stderr_text, tailv, log>>

(* ------------------------ code generation and link --------------------- *)
\* bc_to_obj(obf_bc, obj)
BcToObj ==
  /\ pc = "codegen"
  /\ \E o \in Outcomes :
       LET e == Entry("llc", "", 0, "obf.bc", "output.o", o, <<>>)
       IN IF o = "ok"
          THEN /\ pc' = "finallink"
               /\ log' = Append(log, e)
          ELSE Raise(e)
  /\ UNCHANGED <<inputv, synthv, applyv, statv, tailv>>

\* the linker_args main chooses from the target
LinkerArgs(target) == IF target = "linux" THEN "" ELSE "-static -lws2_32"

\* os.path.exists(out_exe) is false
Absent == -1

\* link_objects([obj], out_exe, ...): after a link that returned 0 the binary
\* is whatever the linker left: nothing, or a file of some size
LinkObjects ==
  /\ pc = "finallink"
  /\ \E o \in Outcomes, x \in {Absent} \cup (0..MaxSize) :
       LET e == Entry("clang++", LinkerArgs(args.target), 0, "output.o", "out_exe", o, <<>>)
       IN IF o = "ok"
          THEN /\ pc' = "measure"
               /\ exe' = x
               /\ log' = Append(log, e)
          ELSE /\ Raise(e)
               /\ UNCHANGED exe
  /\ UNCHANGED <<inputv, synthv, applyv, statv, final_size, methods, tool_versions,
                 report>>

\* os.path.getsize(out_exe) if os.path.exists(out_exe) else 0
FinalSize_NoExistsCheck(x) == x

FinalSize(x) == IF x # Absent THEN x ELSE 0

\* main: the methods list, from the locals bogus, slevel, nops and params
Methods_NonNegative(b, s, n, p) ==
  (IF b >= 0 THEN <<"control_flow_bogus">> ELSE <<>>)
  \o (IF s >= 0 THEN <<"string_obfuscation">> ELSE <<>>)
  \o (IF n >= 0 THEN <<"nop_insertion">> ELSE <<>>)
  \o (IF p.flatten THEN <<"control_flow_flatten">> ELSE <<>>)

Methods(b, s, n, p) ==
  (IF b > 0 THEN <<"control_flow_bogus">> ELSE <<>>)
  \o (IF s > 0 THEN <<"string_obfuscation">> ELSE <<>>)
  \o (IF n > 0 THEN <<"nop_insertion">> ELSE <<>>)
  \o (IF p.flatten THEN <<"control_flow_flatten">> ELSE <<>>)

\* main: final_size and methods
MeasureAndList ==
  /\ pc = "measure"
  /\ final_size' = FinalSize(exe)
  /\ methods' = Methods(bogus, slevel, nops, params)
  /\ pc' = "versions"
  /\ UNCHANGED <<inputv, synthv, applyv, statv, exe, tool_versions, report, log>>

\* one entry of tool_versions: shutil.which finds nothing ("absent"), or the
\* tool is run with --version and exits 0 with a first line ("ok"), exits 0
\* printing nothing ("empty", an IndexError), or exits non-zero ("nonzero")
VersionOutcomes == {"absent", "ok", "empty", "nonzero"}
VersionOf(o, line) == IF o = "absent" THEN None ELSE line
VersionLog(tool, o) ==
  IF o = "absent" THEN <<>>
  ELSE <<Entry(tool, "--version", 0, "", "",
               IF o = "nonzero" THEN "nonzero" ELSE "ok", <<>>)>>

\* main: the tool_versions dictionary (clang first, then opt)
ToolVersions ==
  /\ pc = "versions"
  /\ \E oc \in VersionOutcomes, oo \in VersionOutcomes :
       CASE oc \in {"empty", "nonzero"} ->
              /\ pc' = "aborted"
              /\ log' = log \o VersionLog("clang", oc)
              /\ UNCHANGED tool_versions
         [] oc \notin {"empty", "nonzero"} /\ oo \in {"empty", "nonzero"} ->
              /\ pc' = "aborted"
              /\ log' = log \o VersionLog("clang", oc) \o VersionLog("opt", oo)
              /\ UNCHANGED tool_versions
         [] OTHER ->
              /\ pc' = "report"
              /\ log' = log \o VersionLog("clang", oc) \o VersionLog("opt", oo)
              /\ tool_versions' = [clang |-> VersionOf(oc, "clang version 17"),
                                   opt |-> VersionOf(oo, "LLVM version 17")]
  /\ UNCHANGED <<inputv, synthv, applyv, statv, exe, final_size, methods, report>>

\* the cycles argument main passes to generate_report
ReportCycles_Raw == args.cycles

ReportCycles == Max(1, args.cycles)

\* the dictionary generate_report builds (the timestamp aside)
ReportOf(p, out_file, st, size, cycles, meths, tools) ==
  [input_parameters |-> p,
   output |-> [file |-> out_file, size_bytes |-> size],
   obfuscation_stats |-> st,
   obfuscation_cycles |-> cycles,
   methods_applied |-> meths,
   tools |-> tools]

\* generate_report("report.json", ...): open() succeeds and the report is
\* written, or it raises
GenerateReport ==
  /\ pc = "report"
  /\ \E opened \in BOOLEAN :
       IF opened
       THEN /\ report' = <<ReportOf(params, "out_exe", cumulative_stats, final_size,
                                    ReportCycles, methods, tool_versions)>>
            /\ pc' = "done"
       ELSE /\ pc' = "aborted"
            /\ UNCHANGED report
  /\ UNCHANGED <<inputv, synthv, applyv, statv, exe, final_size, methods,
                 tool_versions, log>>

(* --------------------------- specifications ---------------------------- *)
ArgsSet(B, S, N, C) ==
  [profile : Profiles, bogus_blocks : B, string_level : S, insert_nops : N,
   cycles : C, flatten : BOOLEAN, target : Targets]

InitRest ==
  /\ pc = "start"
  /\ bogus = args.bogus_blocks
  /\ slevel = args.string_level
  /\ nops = args.insert_nops
  /\ params = NoParams
  /\ dl = None /\ tt = None
  /\ opt_ll = <<>>
  /\ i = 0
  /\ src_bc = None
  /\ stderr_accum = <<>>
  /\ stderr_text = <<>>
  /\ stats = EmptyDict
  /\ cumulative_stats = EmptyDict
  /\ obf_bc = 0
  /\ exe = Absent
  /\ final_size = 0
  /\ methods = <<>>
  /\ tool_versions = [clang |-> None, opt |-> None]
  /\ report = <<>>
  /\ log = <<>>

\* The requests the pipeline is run on: without a profile, every user triple
\* with every flag and target at the default cycle count; and on the default
\* user triple, every cycle count with every profile and flag. (Profiles on
\* other user triples are covered by SpecProfile: nothing after ApplyProfile
\* reads the profile or the user triple.)
ParamRequests ==
  [profile : {"None"}, bogus_blocks : -1..MaxUser, string_level : -1..MaxUser,
   insert_nops : -1..MaxUser, cycles : {DefaultCycles}, flatten : BOOLEAN,
   target : Targets]
CycleRequests ==
  [profile : Profiles, bogus_blocks : {DefaultBogus}, string_level : {DefaultString},
   insert_nops : {DefaultNops}, cycles : -1..MaxCycles, flatten : BOOLEAN,
   target : {"linux"}]

Init ==
  /\ args \in ParamRequests \cup CycleRequests
  /\ InitRest

Next ==
  \/ ApplyProfile
  \/ CompileToBc
  \/ ExtractHeaders
  \/ WriteOptions
  \/ AssembleOptions
  \/ LinkOptions
  \/ CompositePass
  \/ SequentialPass
  \/ GatherStats
  \/ BcToObj
  \/ LinkObjects
  \/ MeasureAndList
  \/ ToolVersions
  \/ GenerateReport

Spec == Init /\ [][Next]_vars

\* profile application alone, over a wide range of requests
InitProfile ==
  /\ args \in ArgsSet(-1..MaxBogus, -1..MaxString, -1..MaxNops, {DefaultCycles})
  /\ InitRest

SpecProfile == InitProfile /\ [][ApplyProfile]_vars

(* ------------------------------ properties ----------------------------- *)
IsOpt(e) == e.tool = "opt" /\ e.mode \in {"composite", "sequential"}
IsComposite(e) == e.tool = "opt" /\ e.mode = "composite"
IsSequential(e) == e.tool = "opt" /\ e.mode = "sequential"
IsSequentialOk(e) == IsSequential(e) /\ e.outcome = "ok"
OptLog == SelectSeq(log, IsOpt)
CompositeLog == SelectSeq(log, IsComposite)
SequentialLog == SelectSeq(log, IsSequential)
\* apply_pass has returned to main
Applied == pc \in {"gather", "codegen", "finallink", "measure", "versions", "report", "done"}
Profiled == pc # "start"

\* C1: with any profile, each effective value is at least the value the user
\* requested (a profile never lowers a field).
C1_ProfileNeverLowers ==
  Profiled =>
    /\ bogus >= args.bogus_blocks /\ params.bogus_blocks >= args.bogus_blocks
    /\ slevel >= args.string_level /\ params.string_level >= args.string_level
    /\ nops >= args.insert_nops /\ params.insert_nops >= args.insert_nops

\* C2: medium yields the per-field maximum of the user values and (2,2,4),
\* aggressive the per-field maximum of the user values and (5,3,16), no profile
\* the user values; medium with user (5,1,0) yields (5,2,4).
C2_ProfileFloors ==
  Profiled =>
    LET u == <<args.bogus_blocks, args.string_level, args.insert_nops>>
        eff == <<bogus, slevel, nops>>
    IN /\ eff = <<params.bogus_blocks, params.string_level, params.insert_nops>>
       /\ args.profile = "medium" =>
            eff = <<Max(u[1], 2), Max(u[2], 2), Max(u[3], 4)>>
       /\ args.profile = "aggressive" =>
            eff = <<Max(u[1], 5), Max(u[2], 3), Max(u[3], 16)>>
       /\ args.profile = "None" => eff = u
       /\ (args.profile = "medium" /\ u = <<5, 1, 0>>) => eff = <<5, 2, 4>>

C2_Witness ==
  /\ Profiled
  /\ args.profile = "medium"
  /\ <<args.bogus_blocks, args.string_level, args.insert_nops>> = <<5, 1, 0>>
  /\ <<bogus, slevel, nops>> = <<5, 2, 4>>

\* the sub-sequence of the four method names selected by four booleans
MethodList(b, s, n, f) ==
  (IF b THEN <<"control_flow_bogus">> ELSE <<>>)
  \o (IF s THEN <<"string_obfuscation">> ELSE <<>>)
  \o (IF n THEN <<"nop_insertion">> ELSE <<>>)
  \o (IF f THEN <<"control_flow_flatten">> ELSE <<>>)

\* C3 as stated: in every written report methods_applied is the sub-sequence of
\* the four method names whose parameter is non-zero (flatten: true).
C3_MethodsOfNonZero ==
  pc = "done" =>
    LET p == report[1].input_parameters
    IN report[1].methods_applied =
         MethodList(p.bogus_blocks # 0, p.string_level # 0, p.insert_nops # 0, p.flatten)

\* C3 amended: in every written report methods_applied is the sub-sequence of
\* the four method names whose parameter is greater than zero (flatten: true);
\* it is a function of the effective parameters alone.
C3_MethodsOfPositive ==
  pc = "done" =>
    LET p == report[1].input_parameters
    IN report[1].methods_applied =
         MethodList(p.bogus_blocks > 0, p.string_level > 0, p.insert_nops > 0, p.flatten)

C3_Witness ==
  /\ pc = "done"
  /\ report[1].input_parameters.bogus_blocks < 0
  /\ report[1].input_parameters.string_level > 0
  /\ report[1].input_parameters.flatten
  /\ report[1].methods_applied = <<"string_obfuscation", "control_flow_flatten">>

\* C4: with cycles > 1 the first invocation of the pass is the one composite
\* invocation, asking for `cycles` repetitions; sequential invocations happen
\* only after it exited non-zero, and then apply_pass returns after exactly
\* `cycles` of them; after a successful composite invocation there is none.
C4_CompositeFirst ==
  args.cycles > 1 =>
    /\ Len(CompositeLog) <= 1
    /\ OptLog # <<>> =>
         /\ IsComposite(OptLog[1])
         /\ OptLog[1].n = args.cycles
         /\ OptLog[1].src = "linked.bc"
    /\ SequentialLog # <<>> => OptLog[1].outcome = "nonzero"
    /\ (OptLog # <<>> /\ OptLog[1].outcome = "ok") => Len(OptLog) = 1
    /\ (Applied /\ OptLog[1].outcome = "nonzero") =>
         /\ Len(SequentialLog) = args.cycles
         /\ \A j \in 1..Len(SequentialLog) : SequentialLog[j].outcome = "ok"
    /\ Len(SequentialLog) <= args.cycles

C4_Witness ==
  /\ pc = "done"
  /\ args.cycles = 3
  /\ Len(OptLog) = 4
  /\ IsComposite(OptLog[1]) /\ OptLog[1].outcome = "nonzero"
  /\ Len(SequentialLog) = 3

\* C5: with cycles = 1 there is never a composite invocation and apply_pass
\* returns after exactly one sequential invocation, whose counts are the
\* reported statistics.
C5_SingleCycle ==
  Cycles = 1 =>
    /\ CompositeLog = <<>>
    /\ Len(OptLog) <= 1
    /\ Applied =>
         /\ Len(OptLog) = 1
         /\ IsSequentialOk(OptLog[1])
         /\ OptLog[1].src = "linked.bc"
    /\ pc = "done" =>
         \A k \in KnownKeys :
           report[1].obfuscation_stats[k] = Get(gather_stats(OptLog[1].diag), k, 0)

C5_Witness ==
  /\ pc = "done"
  /\ args.cycles = 1
  /\ Len(OptLog) = 1
  /\ OptLog[1].diag = DiagCounts
  /\ report[1].obfuscation_stats["strings"] = 2

RECURSIVE SumCounts(_, _, _)
\* the sum over entries j..Len(entries) of the count each one reports for k
SumCounts(entries, j, k) ==
  IF j > Len(entries) THEN 0
  ELSE gather_stats(entries[j].diag)[k] + SumCounts(entries, j + 1, k)

\* C6: when the pass ran in N sequential invocations and every one of them
\* reported a count for a known key, the report's value for the key is the sum
\* of the N counts.
C6_SumAcrossCycles ==
  (pc = "done" /\ SequentialLog # <<>>) =>
    \A k \in KnownKeys :
      (\A j \in 1..Len(SequentialLog) : k \in DOMAIN gather_stats(SequentialLog[j].diag))
        => report[1].obfuscation_stats[k] = SumCounts(SequentialLog, 1, k)

\* an invocation whose failure nothing catches
IsFatal(e) ==
  /\ e.outcome # "ok"
  /\ ~IsComposite(e)
  /\ e.tool # "llvm-dis"

\* C7: once a tool invocation other than the composite attempt and llvm-dis
\* has failed, the run is over: it is the last invocation, no report is
\* written and no step can follow.
C7_FatalAborts ==
  \A j \in 1..Len(log) :
    IsFatal(log[j]) =>
      /\ j = Len(log)
      /\ pc = "aborted"
      /\ report = <<>>
      /\ ~ENABLED Next

C7_Witness ==
  /\ pc = "aborted"
  /\ report = <<>>
  /\ Len(log) > 0
  /\ log[Len(log)].tool = "opt"
  /\ log[Len(log)].mode = "--version"
  /\ log[Len(log)].outcome = "nonzero"

\* C8: the step after a final link that returned 0 never fails, whether or not
\* the binary exists; the size it records, and the size_bytes of the report
\* written later, is 0 for a missing binary and the binary's size otherwise.
C8_MissingBinaryIsZero ==
  [][ /\ pc = "measure" =>
           /\ pc' = "versions"
           /\ final_size' = (IF exe = Absent THEN 0 ELSE exe)
      /\ pc' = "done" =>
           /\ report' # <<>>
           /\ report'[1].output.size_bytes = (IF exe = Absent THEN 0 ELSE exe) ]_vars

C8_Witness ==
  /\ pc = "done"
  /\ exe = Absent
  /\ report[1].output.size_bytes = 0

IsGlobal(l) == l.kind = "global"
Globals == SelectSeq(opt_ll, IsGlobal)
\* obf_options.ll has been written
Synthesized == opt_ll # <<>>

\* C9: the options module declares exactly the four globals, one per parameter,
\* i32 for the three counts and i1 (1 for true, 0 for false) for flatten, with
\* the effective parameter values, and each of them internal.
C9_InternalGlobals ==
  Synthesized =>
    /\ Len(Globals) = 4
    /\ \A j \in 1..4 : Globals[j].linkage = "internal"
    /\ \E j \in 1..4 : /\ Globals[j].name = "obf_bogus_blocks"
                       /\ Globals[j].type = "i32"
                       /\ Globals[j].value = params.bogus_blocks
    /\ \E j \in 1..4 : /\ Globals[j].name = "obf_string_level"
                       /\ Globals[j].type = "i32"
                       /\ Globals[j].value = params.string_level
    /\ \E j \in 1..4 : /\ Globals[j].name = "obf_insert_nops"
                       /\ Globals[j].type = "i32"
                       /\ Globals[j].value = params.insert_nops
    /\ \E j \in 1..4 : /\ Globals[j].name = "obf_flatten"
                       /\ Globals[j].type = "i1"
                       /\ Globals[j].value = (IF params.flatten THEN 1 ELSE 0)

C9_Witness ==
  /\ Synthesized
  /\ params.bogus_blocks = 0 /\ params.string_level = 0 /\ params.insert_nops = 0
  /\ ~params.flatten
  /\ Len(Globals) = 4
  /\ \A j \in 1..4 : Globals[j].linkage = "internal" /\ Globals[j].value = 0

ExtractionFailed ==
  \E j \in 1..Len(log) : log[j].tool = "llvm-dis" /\ log[j].outcome # "ok"

\* C10: after llvm-dis failed (non-zero exit or missing) both descriptor
\* fields are absent, the run is not aborted by it, the step that writes the
\* options module is enabled, and the module it writes has no data-layout or
\* triple line.
C10_ExtractionRecovered ==
  ExtractionFailed =>
    /\ dl = None /\ tt = None
    /\ log[Len(log)].tool = "llvm-dis" => (pc = "synth" \/ pc = "assemble")
    /\ pc = "synth" => ENABLED WriteOptions
    /\ Synthesized =>
         /\ Len(opt_ll) = 5
         /\ \A j \in 2..5 : IsGlobal(opt_ll[j])
         /\ opt_ll[1].text = "; Module to provide obfuscation options"

C10_Witness ==
  /\ \E j \in 1..Len(log) : log[j].tool = "llvm-dis" /\ log[j].outcome = "missing"
  /\ \E j \in 1..Len(log) : log[j].tool = "llvm-link" /\ log[j].outcome = "ok"
  /\ \E j \in 1..Len(log) : IsOpt(log[j]) /\ log[j].outcome = "ok"
  /\ Len(opt_ll) = 5
  /\ pc = "done"

\* C11: the composite invocation is attempted at most once, a failed
\* sequential invocation ends the run and is not attempted again, and the pass
\* is invoked at most 1 + cycles times (at most once when cycles = 1).
C11_NoRetries ==
  /\ Len(CompositeLog) <= 1
  /\ \A j \in 1..Len(log) :
       (IsSequential(log[j]) /\ log[j].outcome # "ok") =>
          /\ j = Len(log)
          /\ pc = "aborted"
  /\ Len(SelectSeq(log, IsSequentialOk)) <= Cycles
  /\ Len(OptLog) <= 1 + Cycles
  /\ Cycles = 1 => Len(OptLog) <= 1

C11_Witness ==
  /\ pc = "aborted"
  /\ args.cycles = 2
  /\ Len(OptLog) = 3
  /\ IsComposite(OptLog[1]) /\ OptLog[1].outcome = "nonzero"
  /\ IsSequentialOk(OptLog[2])
  /\ IsSequential(OptLog[3]) /\ OptLog[3].outcome = "nonzero"
  /\ log[Len(log)] = OptLog[3]

IsLlc(e) == e.tool = "llc"
LlcLog == SelectSeq(log, IsLlc)

\* C12: the first sequential invocation reads linked.bc, every later one reads
\* the file the one before it wrote, so that after j invocations obf.bc holds
\* the linked module with the pass applied j times; llc reads the file the last
\* invocation wrote.
C12_SequentialChain ==
  /\ SequentialLog # <<>> => SequentialLog[1].src = "linked.bc"
  /\ \A j \in 2..Len(SequentialLog) :
       /\ SequentialLog[j].src = SequentialLog[j - 1].out
       /\ SequentialLog[j - 1].outcome = "ok"
  /\ (SequentialLog # <<>> /\ pc # "aborted") => obf_bc = Len(SequentialLog)
  /\ Applied => obf_bc = Cycles
  /\ LlcLog # <<>> =>
       /\ LlcLog[1].src = OptLog[Len(OptLog)].out
       /\ OptLog[Len(OptLog)].outcome = "ok"

C12_Witness ==
  /\ pc = "done"
  /\ Len(SequentialLog) = 3
  /\ SequentialLog[1].src = "linked.bc"
  /\ SequentialLog[2].src = "obf.bc"
  /\ SequentialLog[3].src = "obf.bc"
  /\ obf_bc = 3
  /\ LlcLog[1].src = "obf.bc"

IsAssemble(e) == e.tool = "llvm-as"
IsLink(e) == e.tool = "llvm-link"
AssembleLog == SelectSeq(log, IsAssemble)
LinkLog == SelectSeq(log, IsLink)

\* C13: obf_options.ll is written once, llvm-as and llvm-link run at most
\* once each, and whenever the pass has been invoked (composite or sequential,
\* any cycle count) each of the three has happened exactly once, successfully,
\* before the first invocation of the pass.
C13_ConfiguredOnce ==
  /\ [] /\ Len(AssembleLog) <= 1
        /\ Len(LinkLog) <= 1
        /\ OptLog # <<>> =>
             /\ opt_ll # <<>>
             /\ Len(AssembleLog) = 1 /\ AssembleLog[1].outcome = "ok"
             /\ Len(LinkLog) = 1 /\ LinkLog[1].outcome = "ok"
             /\ \E a \in 1..Len(log), l \in 1..Len(log) :
                  /\ IsAssemble(log[a]) /\ IsLink(log[l])
                  /\ a < l
                  /\ \A j \in 1..Len(log) : IsOpt(log[j]) => l < j
  /\ [][opt_ll' # opt_ll => (opt_ll = <<>> /\ OptLog = <<>>)]_vars

C13_Witness ==
  /\ pc = "done"
  /\ Len(SequentialLog) = 3
  /\ Len(CompositeLog) = 1
  /\ Len(AssembleLog) = 1
  /\ Len(LinkLog) = 1
  /\ opt_ll # <<>>

\* the stage a tool invocation belongs to, in the order of the pipeline
StageOf(e) ==
  CASE e.mode = "--version" -> 9
    [] e.tool = "clang" -> 1
    [] e.tool = "llvm-dis" -> 2
    [] e.tool = "llvm-as" -> 3
    [] e.tool = "llvm-link" -> 4
    [] e.tool = "opt" -> 5
    [] e.tool = "llc" -> 7
    [] e.tool = "clang++" -> 8

\* the stage main() is in
StageAt(p) ==
  CASE p = "start" -> 0
    [] p = "compile" -> 1
    [] p = "extract" -> 2
    [] p \in {"synth", "assemble"} -> 3
    [] p = "link" -> 4
    [] p \in {"composite", "sequential"} -> 5
    [] p = "gather" -> 6
    [] p = "codegen" -> 7
    [] p = "finallink" -> 8
    [] p \in {"measure", "versions", "report"} -> 9
    [] p \in {"done", "aborted"} -> 10

HasOk(tool, mode) ==
  \E j \in 1..Len(log) :
    log[j].tool = tool /\ log[j].mode = mode /\ log[j].outcome = "ok"

\* C14: the run never goes back to an earlier stage, the tools are invoked in
\* the order of the stages (only the pass and the version queries more than
\* once), the statistics are gathered before llc runs, and a report exists
\* only at the end of a run in which every stage's tool returned 0 (llvm-dis
\* and the composite attempt aside), after which nothing happens.
C14_StageOrder ==
  /\ [][StageAt(pc') >= StageAt(pc)]_vars
  /\ [] /\ \A j \in 2..Len(log) :
             /\ StageOf(log[j - 1]) <= StageOf(log[j])
             /\ StageOf(log[j - 1]) = StageOf(log[j]) => StageOf(log[j]) \in {5, 9}
        /\ log # <<>> => StageOf(log[Len(log)]) <= StageAt(pc)
        /\ LlcLog # <<>> => DOMAIN cumulative_stats = KnownKeys /\ StageAt(pc) > 6
        /\ report # <<>> =>
             /\ pc = "done"
             /\ ~ENABLED Next
             /\ HasOk("clang", "")
             /\ \E j \in 1..Len(log) : log[j].tool = "llvm-dis"
             /\ opt_ll # <<>>
             /\ HasOk("llvm-as", "") /\ HasOk("llvm-link", "")
             /\ HasOk("opt", "composite") \/ HasOk("opt", "sequential")
             /\ HasOk("llc", "")
             /\ HasOk("clang++", LinkerArgs(args.target))
             /\ \A j \in 1..Len(log) :
                  log[j].outcome # "ok" => (IsComposite(log[j]) \/ log[j].tool = "llvm-dis")

C14_Witness ==
  /\ pc = "done"
  /\ report # <<>>
  /\ Len(log) = 10
  /\ log[1].tool = "clang" /\ log[2].tool = "llvm-dis" /\ log[3].tool = "llvm-as"
  /\ log[4].tool = "llvm-link" /\ IsComposite(log[5]) /\ IsSequential(log[6])
  /\ IsSequential(log[7]) /\ log[8].tool = "llc" /\ log[9].tool = "clang++"
  /\ log[10].mode = "--version"

RECURSIVE ConcatDiags(_, _)
\* the diagnostics of entries j..Len(entries), one after the other
ConcatDiags(entries, j) ==
  IF j > Len(entries) THEN <<>>
  ELSE entries[j].diag \o ConcatDiags(entries, j + 1)

CompositeSucceeded == CompositeLog # <<>> /\ CompositeLog[1].outcome = "ok"

\* C15: the text apply_pass returns is the composite invocation's stderr when
\* that invocation succeeded, and otherwise the stderr texts of the sequential
\* invocations concatenated in the order of the cycles; no line of a failed
\* composite attempt's stderr is in it.
C15_DiagnosticsInOrder ==
  /\ pc = "sequential" =>
       stderr_accum = ConcatDiags(SelectSeq(log, IsSequentialOk), 1)
  /\ Applied =>
       /\ stderr_text = IF CompositeSucceeded THEN CompositeLog[1].diag
                        ELSE ConcatDiags(SequentialLog, 1)
       /\ \A j \in 1..Len(log) :
            (IsComposite(log[j]) /\ log[j].outcome # "ok") =>
               \A a \in 1..Len(log[j].diag), b \in 1..Len(stderr_text) :
                  log[j].diag[a] # stderr_text[b]

C15_Witness ==
  /\ pc = "done"
  /\ Len(CompositeLog) = 1 /\ CompositeLog[1].outcome = "nonzero"
  /\ CompositeLog[1].diag = DiagFailed
  /\ Len(SequentialLog) = 2
  /\ SequentialLog[1].diag = DiagCounts
  /\ SequentialLog[2].diag = DiagMixed
  /\ stderr_text = DiagCounts \o DiagMixed

\* a sentinel line of text has a word k=v (for some v: Mentions(text, k, v))
Mentions(text, k, v) ==
  \E l \in 1..Len(text) :
    /\ text[l].sentinel
    /\ \E w \in 1..Len(text[l].words) : text[l].words[w] = <<k, v>>
MentionsKey(text, k) ==
  \E l \in 1..Len(text) :
    /\ text[l].sentinel
    /\ \E w \in 1..Len(text[l].words) :
         Len(text[l].words[w]) = 2 /\ text[l].words[w][1] = k

\* C16: the statistics of a written report have exactly the keys bogus_blocks,
\* strings and nops; a key that no sentinel line of the diagnostics mentions
\* is 0, and the value of any other key is one that a sentinel line gives for
\* it (never one from a line without the sentinel).
C16_SeededKeysOnly ==
  pc = "done" =>
    LET st == report[1].obfuscation_stats
    IN /\ DOMAIN st = {"bogus_blocks", "strings", "nops"}
       /\ \A k \in DOMAIN st :
            IF MentionsKey(stderr_text, k)
            THEN Mentions(stderr_text, k, st[k])
            ELSE st[k] = 0

C16_Witness ==
  /\ pc = "done"
  /\ stderr_text = DiagMixed
  /\ MentionsKey(stderr_text, "functions")
  /\ ~MentionsKey(stderr_text, "strings")
  /\ report[1].obfuscation_stats = [bogus_blocks |-> 0, strings |-> 0, nops |-> 3]

\* the value obf_options.ll gives the global called name
GlobalValue(name) ==
  (CHOOSE g \in {Globals[j] : j \in 1..Len(Globals)} : g.name = name).value

\* C17: after the profile has been applied no step changes the parameters; the
\* values written into obf_options.ll are those of params, and a written
\* report records the same values as input_parameters and lists the methods
\* they select, also after a failed composite attempt and the fallback.
C17_ParametersFixed ==
  /\ [][pc # "start" =>
          /\ params' = params
          /\ <<bogus', slevel', nops'>> = <<bogus, slevel, nops>>]_vars
  /\ [] /\ Profiled =>
             <<bogus, slevel, nops>> =
               <<params.bogus_blocks, params.string_level, params.insert_nops>>
        /\ Synthesized =>
             /\ GlobalValue("obf_bogus_blocks") = params.bogus_blocks
             /\ GlobalValue("obf_string_level") = params.string_level
             /\ GlobalValue("obf_insert_nops") = params.insert_nops
             /\ GlobalValue("obf_flatten") = (IF params.flatten THEN 1 ELSE 0)
        /\ pc = "done" =>
             LET p == report[1].input_parameters
             IN /\ p.bogus_blocks = GlobalValue("obf_bogus_blocks")
                /\ p.string_level = GlobalValue("obf_string_level")
                /\ p.insert_nops = GlobalValue("obf_insert_nops")
                /\ p.flatten = (GlobalValue("obf_flatten") = 1)
                /\ p.target = args.target
                /\ report[1].methods_applied =
                     MethodList(GlobalValue("obf_bogus_blocks") > 0,
                                GlobalValue("obf_string_level") > 0,
                                GlobalValue("obf_insert_nops") > 0,
                                GlobalValue("obf_flatten") = 1)

C17_Witness ==
  /\ pc = "done"
  /\ args.profile = "medium"
  /\ args.flatten
  /\ Len(CompositeLog) = 1 /\ CompositeLog[1].outcome = "nonzero"
  /\ Len(SequentialLog) = 2
  /\ GlobalValue("obf_bogus_blocks") = 2
  /\ GlobalValue("obf_insert_nops") = 4
  /\ GlobalValue("obf_flatten") = 1
  /\ report[1].input_parameters.bogus_blocks = 2
  /\ report[1].input_parameters.insert_nops = 4
  /\ report[1].input_parameters.flatten

\* max(1, cycles), written out
EffectiveCycles == IF args.cycles >= 1 THEN args.cycles ELSE 1

\* C18: for every --cycles value, 0 and negative ones included, a report
\* records max(1, cycles) as obfuscation_cycles, a sequential run that returns
\* has made max(1, cycles) invocations, a run that reaches the pass makes an
\* invocation, every return of apply_pass follows a successful invocation, and
\* the composite attempt is made only when cycles > 1.
C18_AtLeastOneCycle ==
  /\ pc = "done" => report[1].obfuscation_cycles = EffectiveCycles
  /\ (Applied /\ ~CompositeSucceeded) =>
       /\ Len(SequentialLog) = EffectiveCycles
       /\ \A j \in 1..Len(SequentialLog) : SequentialLog[j].outcome = "ok"
  /\ Applied => \E j \in 1..Len(OptLog) : OptLog[j].outcome = "ok"
  /\ pc \in {"composite", "sequential"} => ENABLED (CompositePass \/ SequentialPass)
  /\ (pc = "composite" \/ CompositeLog # <<>>) => args.cycles > 1
  /\ (args.cycles > 1 /\ OptLog # <<>>) => IsComposite(OptLog[1])

C18_Witness ==
  /\ pc = "done"
  /\ args.cycles = -1
  /\ report[1].obfuscation_cycles = 1
  /\ Len(OptLog) = 1
  /\ IsSequentialOk(OptLog[1])

====
